---- MODULE Spec2Model ----
(***************************************************************************)
(* CGxx: the Matrix Market loader (MatrixCOO), the CRS / ELL conversions   *)
(* and their chunked variants (Matrix.cpp), and the timed kernel wrappers  *)
(* and iteration engine of the solver base class (CG.h).                   *)
(***************************************************************************)
EXTENDS Integers, Sequences, FiniteSets, TLC

VARIABLES
  file,       \* the Matrix Market file handed to MatrixCOO(const char *file)
  pc,         \* position inside MatrixCOO::MatrixCOO
  M, N, nz,   \* int M (local), MatrixCOO::N, MatrixCOO::nz
  symmetric,  \* bool symmetric (local)
  allocated,  \* I, J, V, nzPerRow have been allocated
  cap,        \* length the arrays I, J, V were allocated with
  I, J, V,    \* MatrixCOO::I, J, V: index 0..cap-1
  nzPerRow,   \* MatrixCOO::nzPerRow: index 0..N-1
  i,          \* loop variable of the read loop
  lines,      \* entry lines consumed by fscanf so far
  lastW,      \* indices of I/J/V written by the last loop iteration
  oob,        \* a write past the end of I/J/V has happened
  conv,       \* which conversion runs: none, crs, ell, split_crs, split_ell
  cpc,        \* position inside the conversion: idle, fill, done, crash
  wd,         \* the WorkDistribution of a chunked conversion
  data,       \* the converted matrix: one record per chunk (one when unchunked)
  offsets,    \* the per-row write cursors of the conversion
  ci,         \* loop variable of the conversion's fill loop
  lastK,      \* <<chunk, slot, row>> of the last write of the fill loop
  rewrote,    \* a fill-loop write hit a slot that was already written
  convOob,    \* a fill-loop write fell outside its array
  timing,     \* CG::timing
  lastOp,     \* the wrapper called last, with its arguments
  lastCalls,  \* the kernel calls made by the wrapper called last
  kernelRet,  \* value returned by the last vectorDotKernel call
  ret,        \* value returned by the last vectorDot call
  spc,        \* position inside CG::solve
  checks,     \* convergence checks CG::solve has completed
  preconditioner,  \* CG::preconditioner
  iteration, maxIterations, residual, tolerance  \* CG's fields of these names

mvars == <<file, pc, M, N, nz, symmetric, allocated, cap, I, J, V, nzPerRow,
           i, lines, lastW, oob>>
cvars == <<conv, cpc, wd, data, offsets, ci, lastK, rewrote, convOob>>
tvars == <<timing, lastOp, lastCalls, kernelRet, ret>>
svars == <<spc, checks, preconditioner, iteration, maxIterations, residual,
           tolerance>>
gvars == <<tvars, svars>>
vars == <<mvars, cvars, gvars>>

----------------------------------------------------------------------------
(* Bounds of the model. *)
MaxN == 2
MaxEntries == 3
MaxChunks == 2
MaxTime == 1
MaxIter == 2

(* Content of a slot that was allocated and never written. *)
Uninit == 0 - 1

Rows(n) == 0 .. (n - 1)

SeqsUpTo(S, n) == UNION {[1 .. k -> S] : k \in 0 .. n}

Sum(f, S) ==
  LET RECURSIVE go(_)
      go(T) == IF T = {} THEN 0
               ELSE LET x == CHOOSE y \in T : TRUE IN f[x] + go(T \ {x})
  IN go(S)

Max2(a, b) == IF a > b THEN a ELSE b

----------------------------------------------------------------------------
(* Input files.  An entry line is <<row, column, value>>, 1-based; the     *)
(* size line announces as many entries as the file holds.  The value of    *)
(* an entry is its line number, so every entry is told apart.              *)

Positions(n) == (1 .. n) \X (1 .. n)

EntrySeqs(n) ==
  {[k \in 1 .. Len(ps) |-> <<ps[k][1], ps[k][2], k>>] :
     ps \in SeqsUpTo(Positions(n), MaxEntries)}

Distinct(es) ==
  \A a, b \in 1 .. Len(es) :
    a # b => <<es[a][1], es[a][2]>> # <<es[b][1], es[b][2]>>

(* A file whose banner says symmetric stores one triangle, each position once. *)
OneTriangle(es) ==
  /\ Distinct(es)
  /\ \/ \A k \in 1 .. Len(es) : es[k][1] >= es[k][2]
     \/ \A k \in 1 .. Len(es) : es[k][1] <= es[k][2]

GoodFiles ==
  {[openable |-> TRUE, bannerOk |-> TRUE, sparse |-> TRUE, real |-> TRUE,
    sizeOk |-> TRUE, M |-> n, N |-> n, symmetric |-> s, entries |-> es] :
     n \in 1 .. MaxN, s \in BOOLEAN, es \in EntrySeqs(MaxN)}

WellFormed(f) ==
  /\ \A k \in 1 .. Len(f.entries) :
       f.entries[k][1] <= f.N /\ f.entries[k][2] <= f.N
  /\ f.symmetric => OneTriangle(f.entries)

BadFiles ==
  {[openable |-> o, bannerOk |-> b, sparse |-> sp, real |-> re,
    sizeOk |-> sz, M |-> m, N |-> n, symmetric |-> FALSE,
    entries |-> <<<<1, 1, 1>>>>] :
     o \in BOOLEAN, b \in BOOLEAN, sp \in BOOLEAN, re \in BOOLEAN,
     sz \in BOOLEAN, m \in 1 .. MaxN, n \in 1 .. MaxN}

Files == {f \in GoodFiles : WellFormed(f)} \cup BadFiles

(* U: entry lines of the file; D: those on the main diagonal. *)
U == Len(file.entries)
D == Cardinality({k \in 1 .. Len(file.entries) :
                    file.entries[k][1] = file.entries[k][2]})

----------------------------------------------------------------------------
(* MatrixCOO::MatrixCOO *)

(* mm_is_sparse(matcode) && mm_is_real(matcode) *)
TypeSupported(f) == f.sparse /\ f.real

IsSquareAlways(m, n) == TRUE
IsSquare(m, n) == n = m

(* "Store upper and lower triangular!" *)
SymmetricNz(n0, n) == 2 * n0 - n

MirrorNeeded(sym, r, c) == sym /\ r # c

FreshArray(n) == [k \in 0 .. (n - 1) |-> Uninit]

Exit1 == /\ pc' = "exit1"
         /\ UNCHANGED <<file, M, N, nz, symmetric, allocated, cap, I, J, V,
                        nzPerRow, i, lines, lastW, oob>>

Goto(p) == /\ pc' = p
           /\ UNCHANGED <<file, M, N, nz, symmetric, allocated, cap, I, J, V,
                          nzPerRow, i, lines, lastW, oob>>

OpenFile ==
  /\ pc = "open"
  /\ IF file.openable THEN Goto("banner") ELSE Exit1
  /\ UNCHANGED <<cvars, gvars>>

ReadBanner ==
  /\ pc = "banner"
  /\ IF file.bannerOk THEN Goto("type") ELSE Exit1
  /\ UNCHANGED <<cvars, gvars>>

CheckType ==
  /\ pc = "type"
  /\ IF TypeSupported(file) THEN Goto("size") ELSE Exit1
  /\ UNCHANGED <<cvars, gvars>>

ReadSize ==
  /\ pc = "size"
  /\ IF file.sizeOk
       THEN /\ pc' = "square"
            /\ M' = file.M
            /\ N' = file.N
            /\ nz' = Len(file.entries)
            /\ UNCHANGED <<file, symmetric, allocated, cap, I, J, V,
                           nzPerRow, i, lines, lastW, oob>>
       ELSE Exit1
  /\ UNCHANGED <<cvars, gvars>>

CheckSquare ==
  /\ pc = "square"
  /\ IF IsSquare(M, N) THEN Goto("alloc") ELSE Exit1
  /\ UNCHANGED <<cvars, gvars>>

(* Lines 44-56.  new int[nz] with a negative nz throws                     *)
(* std::bad_array_new_length, which nothing catches.                       *)
Allocate ==
  /\ pc = "alloc"
  /\ LET n1 == IF file.symmetric THEN SymmetricNz(nz, N) ELSE nz IN
       /\ symmetric' = file.symmetric
       /\ nz' = n1
       /\ IF n1 < 0
            THEN /\ pc' = "abort"
                 /\ UNCHANGED <<allocated, cap, I, J, V, nzPerRow>>
            ELSE /\ pc' = "read"
                 /\ allocated' = TRUE
                 /\ cap' = n1
                 /\ I' = FreshArray(n1)
                 /\ J' = FreshArray(n1)
                 /\ V' = FreshArray(n1)
                 /\ nzPerRow' = [r \in Rows(N) |-> 0]
  /\ UNCHANGED <<file, M, N, i, lines, lastW, oob>>
  /\ UNCHANGED <<cvars, gvars>>

(* One iteration of the read loop, lines 59-79.  The mirrored entry is     *)
(* written at i + 1 with no check against nz: when i + 1 = nz the write    *)
(* and the read-back of I[i] are past the end of the arrays, and the run   *)
(* either dies or goes on with the heap slack absorbing the write.         *)
ReadEntry ==
  /\ pc = "read"
  /\ i < nz
  /\ lines < Len(file.entries)
  /\ LET e == file.entries[lines + 1]
         r == e[1] - 1
         c == e[2] - 1
         I1 == [I EXCEPT ![i] = r]
         J1 == [J EXCEPT ![i] = c]
         V1 == [V EXCEPT ![i] = e[3]]
         n1 == [nzPerRow EXCEPT ![r] = @ + 1]
     IN
       /\ lines' = lines + 1
       /\ IF MirrorNeeded(symmetric, r, c)
            THEN /\ lastW' = <<i, i + 1>>
                 /\ IF i + 1 < cap
                      THEN /\ I' = [I1 EXCEPT ![i + 1] = c]
                           /\ J' = [J1 EXCEPT ![i + 1] = r]
                           /\ V' = [V1 EXCEPT ![i + 1] = e[3]]
                           /\ nzPerRow' = [n1 EXCEPT ![c] = @ + 1]
                           /\ i' = i + 2
                           /\ pc' = pc
                           /\ oob' = oob
                      ELSE /\ I' = I1
                           /\ J' = J1
                           /\ V' = V1
                           /\ oob' = TRUE
                           /\ \/ /\ pc' = "crash"
                                 /\ nzPerRow' = n1
                                 /\ i' = i + 1
                              \/ /\ pc' = pc
                                 /\ nzPerRow' = [n1 EXCEPT ![c] = @ + 1]
                                 /\ i' = i + 2
            ELSE /\ lastW' = <<i>>
                 /\ I' = I1
                 /\ J' = J1
                 /\ V' = V1
                 /\ nzPerRow' = n1
                 /\ i' = i + 1
                 /\ pc' = pc
                 /\ oob' = oob
  /\ UNCHANGED <<file, M, N, nz, symmetric, allocated, cap>>
  /\ UNCHANGED <<cvars, gvars>>

(* The loop condition fails; fclose(fp). *)
ReadDone ==
  /\ pc = "read"
  /\ i >= nz
  /\ Goto("loaded")
  /\ UNCHANGED <<cvars, gvars>>

Load == OpenFile \/ ReadBanner \/ CheckType \/ ReadSize \/ CheckSquare
          \/ Allocate \/ ReadEntry \/ ReadDone

----------------------------------------------------------------------------
(* WorkDistribution: chunk c owns rows offsets[c] .. offsets[c]+lengths[c]-1; *)
(* the chunks are contiguous, disjoint and cover [0, N).                       *)

LengthSeqs(n, chunks) ==
  {ls \in [0 .. (chunks - 1) -> 0 .. n] :
     Sum(ls, 0 .. (chunks - 1)) = n}

MakeWD(ls, chunks) ==
  [numberOfChunks |-> chunks,
   lengths |-> ls,
   offsets |-> [c \in 0 .. (chunks - 1) |-> Sum(ls, 0 .. (c - 1))]]

WorkDistributions(n) ==
  UNION {{MakeWD(ls, chunks) : ls \in LengthSeqs(n, chunks)} :
           chunks \in 1 .. MaxChunks}

Chunks(w) == 0 .. (w.numberOfChunks - 1)

(* WorkDistribution::findChunk *)
findChunk(w, row) ==
  CHOOSE c \in Chunks(w) :
    w.offsets[c] <= row /\ row < w.offsets[c] + w.lengths[c]

----------------------------------------------------------------------------
(* MatrixCOO::getMaxNz(from, to) *)
getMaxNz(cnt, from, to) ==
  LET m[k \in from .. to] ==
        IF k = from THEN 0 ELSE Max2(m[k - 1], cnt[k - 1])
  IN IF to < from THEN 0 ELSE m[to]

(* The ptr loop of the CRS constructors: ptr[0] = 0,                        *)
(* ptr[k] = ptr[k - 1] + nzPerRow[offset + k - 1].                          *)
PtrArray(cnt, offset, length) ==
  LET p[k \in 0 .. length] ==
        IF k = 0 THEN 0 ELSE p[k - 1] + cnt[offset + k - 1]
  IN p

(* The slot the fill loop writes for an entry of `row`. *)
CRSSlot(offs, row) == offs[row]

ELLSlotRowMajor(offs, row, len, off) == (row - off) * len + offs[row]
ELLSlot(offs, row, len, off) == offs[row] * len + row - off

ChunkMaxNzGlobal(cnt, offset, length) == getMaxNz(cnt, 0, N)
ChunkMaxNz(cnt, offset, length) == getMaxNz(cnt, offset, offset + length)

(* A write arr[k] = x; a write outside the array leaves the array as it is. *)
Store(arr, k, x) == IF k \in DOMAIN arr THEN [arr EXCEPT ![k] = x] ELSE arr

(* What follows a fill-loop write: on, or, after a write outside the array, *)
(* possibly the end of the process.                                          *)
AfterWrite(arr, k) == IF k \in DOMAIN arr THEN {"fill"} ELSE {"fill", "crash"}

Written(arr, k) == k \in DOMAIN arr /\ arr[k] # Uninit

(* The triplet matrix a conversion is handed. *)
COO == [N |-> N, nz |-> nz, I |-> I, J |-> J, V |-> V, nzPerRow |-> nzPerRow]

(* DataMatrix<MatrixDataCRS>::DataMatrix(coo), lines 95-112: ptr, the      *)
(* cursors and the allocation of index and value.                          *)
CRSStart(coo) ==
  LET p == PtrArray(coo.nzPerRow, 0, coo.N) IN
    [ptr |-> p,
     offs |-> [r \in Rows(coo.N) |-> p[r]],
     index |-> FreshArray(coo.nz),
     value |-> FreshArray(coo.nz),
     placed |-> {}]

(* Iteration t of the fill loop, lines 113-118. *)
CRSStep(s, coo, t) ==
  LET row == coo.I[t]
      k == CRSSlot(s.offs, row)
  IN [ptr |-> s.ptr,
      offs |-> [s.offs EXCEPT ![row] = @ + 1],
      index |-> Store(s.index, k, coo.J[t]),
      value |-> Store(s.value, k, coo.V[t]),
      placed |-> s.placed \cup {<<k, coo.J[t], coo.V[t]>>}]

(* The whole constructor. *)
CRSOf(coo) ==
  LET st[t \in 0 .. coo.nz] ==
        IF t = 0 THEN CRSStart(coo) ELSE CRSStep(st[t - 1], coo, t - 1)
  IN [ptr |-> st[coo.nz].ptr, index |-> st[coo.nz].index,
      value |-> st[coo.nz].value, placed |-> st[coo.nz].placed]

CRSBegin ==
  /\ pc = "loaded" /\ conv = "none"
  /\ conv' = "crs"
  /\ cpc' = "fill"
  /\ LET s == CRSStart(COO) IN
       /\ offsets' = s.offs
       /\ data' = [c \in {0} |->
                     [ptr |-> s.ptr, index |-> s.index, value |-> s.value]]
  /\ ci' = 0
  /\ UNCHANGED <<wd, lastK, rewrote, convOob>>
  /\ UNCHANGED <<mvars, gvars>>

CRSFill ==
  /\ conv = "crs" /\ cpc = "fill"
  /\ ci < nz
  /\ LET row == I[ci]
         k == CRSSlot(offsets, row)
         s == CRSStep([ptr |-> data[0].ptr, offs |-> offsets,
                       index |-> data[0].index, value |-> data[0].value,
                       placed |-> {}],
                      COO, ci)
     IN
       /\ data' = [c \in {0} |->
                     [ptr |-> s.ptr, index |-> s.index, value |-> s.value]]
       /\ offsets' = s.offs
       /\ lastK' = <<0, k, row>>
       /\ rewrote' = (rewrote \/ Written(data[0].index, k))
       /\ convOob' = (convOob \/ k \notin DOMAIN data[0].index)
       /\ cpc' \in AfterWrite(data[0].index, k)
  /\ ci' = ci + 1
  /\ UNCHANGED <<conv, wd>>
  /\ UNCHANGED <<mvars, gvars>>

(* SplitMatrix<MatrixDataCRS>::SplitMatrix(coo, wd), up to the fill loop. *)
SplitCRSBegin ==
  /\ pc = "loaded" /\ conv = "none"
  /\ conv' = "split_crs"
  /\ cpc' = "fill"
  /\ \E w \in WorkDistributions(N) :
       /\ wd' = w
       /\ LET p(c) == PtrArray(nzPerRow, w.offsets[c], w.lengths[c]) IN
            /\ offsets' = [r \in Rows(N) |->
                             LET c == findChunk(w, r) IN p(c)[r - w.offsets[c]]]
            /\ data' = [c \in Chunks(w) |->
                          [ptr |-> p(c),
                           index |-> FreshArray(p(c)[w.lengths[c]]),
                           value |-> FreshArray(p(c)[w.lengths[c]])]]
  /\ ci' = 0
  /\ UNCHANGED <<lastK, rewrote, convOob>>
  /\ UNCHANGED <<mvars, gvars>>

SplitCRSFill ==
  /\ conv = "split_crs" /\ cpc = "fill"
  /\ ci < nz
  /\ LET row == I[ci]
         chunk == findChunk(wd, row)
         k == CRSSlot(offsets, row)
     IN
       /\ data' = [data EXCEPT ![chunk].index = Store(@, k, J[ci]),
                               ![chunk].value = Store(@, k, V[ci])]
       /\ offsets' = [offsets EXCEPT ![row] = @ + 1]
       /\ lastK' = <<chunk, k, row>>
       /\ rewrote' = (rewrote \/ Written(data[chunk].index, k))
       /\ convOob' = (convOob \/ k \notin DOMAIN data[chunk].index)
       /\ cpc' \in AfterWrite(data[chunk].index, k)
  /\ ci' = ci + 1
  /\ UNCHANGED <<conv, wd>>
  /\ UNCHANGED <<mvars, gvars>>

(* DataMatrix<MatrixDataELL>::DataMatrix(coo), lines 164-177: elements,   *)
(* length, the cursors and the allocation of index and data.               *)
ELLStart(coo) ==
  LET elements == coo.N * getMaxNz(coo.nzPerRow, 0, coo.N) IN
    [length |-> coo.nzPerRow,
     elements |-> elements,
     offs |-> [r \in Rows(coo.N) |-> 0],
     index |-> FreshArray(elements),
     data |-> FreshArray(elements),
     placed |-> {}]

(* Iteration t of the fill loop, lines 178-184. *)
ELLStep(s, coo, t) ==
  LET row == coo.I[t]
      k == ELLSlot(s.offs, row, coo.N, 0)
  IN [length |-> s.length,
      elements |-> s.elements,
      offs |-> [s.offs EXCEPT ![row] = @ + 1],
      index |-> Store(s.index, k, coo.J[t]),
      data |-> Store(s.data, k, coo.V[t]),
      placed |-> s.placed \cup {<<k, coo.J[t], coo.V[t]>>}]

(* The whole constructor. *)
ELLOf(coo) ==
  LET st[t \in 0 .. coo.nz] ==
        IF t = 0 THEN ELLStart(coo) ELSE ELLStep(st[t - 1], coo, t - 1)
  IN [length |-> st[coo.nz].length, elements |-> st[coo.nz].elements,
      index |-> st[coo.nz].index, data |-> st[coo.nz].data,
      placed |-> st[coo.nz].placed]

ELLBegin ==
  /\ pc = "loaded" /\ conv = "none"
  /\ conv' = "ell"
  /\ cpc' = "fill"
  /\ LET s == ELLStart(COO) IN
       /\ offsets' = s.offs
       /\ data' = [c \in {0} |->
                     [length |-> s.length, elements |-> s.elements,
                      index |-> s.index, data |-> s.data]]
  /\ ci' = 0
  /\ UNCHANGED <<wd, lastK, rewrote, convOob>>
  /\ UNCHANGED <<mvars, gvars>>

ELLFill ==
  /\ conv = "ell" /\ cpc = "fill"
  /\ ci < nz
  /\ LET row == I[ci]
         k == ELLSlot(offsets, row, N, 0)
         s == ELLStep([length |-> data[0].length,
                       elements |-> data[0].elements, offs |-> offsets,
                       index |-> data[0].index, data |-> data[0].data,
                       placed |-> {}],
                      COO, ci)
     IN
       /\ data' = [c \in {0} |->
                     [length |-> s.length, elements |-> s.elements,
                      index |-> s.index, data |-> s.data]]
       /\ offsets' = s.offs
       /\ lastK' = <<0, k, row>>
       /\ rewrote' = (rewrote \/ Written(data[0].index, k))
       /\ convOob' = (convOob \/ k \notin DOMAIN data[0].index)
       /\ cpc' \in AfterWrite(data[0].index, k)
  /\ ci' = ci + 1
  /\ UNCHANGED <<conv, wd>>
  /\ UNCHANGED <<mvars, gvars>>

(* SplitMatrix<MatrixDataELL>::SplitMatrix(coo, wd), up to the fill loop. *)
SplitELLBegin ==
  /\ pc = "loaded" /\ conv = "none"
  /\ conv' = "split_ell"
  /\ cpc' = "fill"
  /\ \E w \in WorkDistributions(N) :
       /\ wd' = w
       /\ data' = [c \in Chunks(w) |->
                     LET maxNz == ChunkMaxNz(nzPerRow, w.offsets[c], w.lengths[c])
                         elements == maxNz * w.lengths[c]
                     IN [length |-> [r \in Rows(w.lengths[c]) |->
                                       nzPerRow[w.offsets[c] + r]],
                         elements |-> elements,
                         index |-> FreshArray(elements),
                         data |-> FreshArray(elements)]]
  /\ offsets' = [r \in Rows(N) |-> 0]
  /\ ci' = 0
  /\ UNCHANGED <<lastK, rewrote, convOob>>
  /\ UNCHANGED <<mvars, gvars>>

SplitELLFill ==
  /\ conv = "split_ell" /\ cpc = "fill"
  /\ ci < nz
  /\ LET row == I[ci]
         chunk == findChunk(wd, row)
         k == ELLSlot(offsets, row, wd.lengths[chunk], wd.offsets[chunk])
     IN
       /\ data' = [data EXCEPT ![chunk].index = Store(@, k, J[ci]),
                               ![chunk].data = Store(@, k, V[ci])]
       /\ offsets' = [offsets EXCEPT ![row] = @ + 1]
       /\ lastK' = <<chunk, k, row>>
       /\ rewrote' = (rewrote \/ Written(data[chunk].index, k))
       /\ convOob' = (convOob \/ k \notin DOMAIN data[chunk].index)
       /\ cpc' \in AfterWrite(data[chunk].index, k)
  /\ ci' = ci + 1
  /\ UNCHANGED <<conv, wd>>
  /\ UNCHANGED <<mvars, gvars>>

(* The fill loop's condition fails and the constructor returns. *)
ConvDone ==
  /\ cpc = "fill"
  /\ ci >= nz
  /\ cpc' = "done"
  /\ UNCHANGED <<conv, wd, data, offsets, ci, lastK, rewrote, convOob>>
  /\ UNCHANGED <<mvars, gvars>>

Convert == CRSBegin \/ CRSFill \/ SplitCRSBegin \/ SplitCRSFill
             \/ ELLBegin \/ ELLFill \/ SplitELLBegin \/ SplitELLFill
             \/ ConvDone

----------------------------------------------------------------------------
(* What the claims read off the state. *)

Get(arr, k) == IF k \in DOMAIN arr THEN arr[k] ELSE Uninit

(* Triplets of row r: their number, and their <<column, value>> pairs in   *)
(* input order.                                                            *)
Count(r) == Cardinality({k \in 0 .. (nz - 1) : I[k] = r})

RowTriplets(r) ==
  LET idx == [k \in 1 .. nz |-> k - 1]
      InRow(k) == I[k] = r
      ks == SelectSeq(idx, InRow)
  IN [j \in 1 .. Len(ks) |-> <<J[ks[j]], V[ks[j]]>>]

(* The per-row counts of the triplet matrix match its triplets. *)
Consistent == \A r \in Rows(N) : nzPerRow[r] = Count(r)

BagOf(s) ==
  [x \in {s[k] : k \in DOMAIN s} |-> Cardinality({k \in DOMAIN s : s[k] = x})]

(* Row r as the converted matrix holds it. *)
CRSRow(d, r) ==
  [j \in 1 .. (d.ptr[r + 1] - d.ptr[r]) |->
     <<Get(d.index, d.ptr[r] + j - 1), Get(d.value, d.ptr[r] + j - 1)>>]

ELLRow(d, r, len) ==
  [j \in 1 .. d.length[r] |->
     <<Get(d.index, (j - 1) * len + r), Get(d.data, (j - 1) * len + r)>>]

(* The triplet matrix restricted to the rows offset .. offset+length-1,    *)
(* renumbered from 0.                                                      *)
Restrict(coo, offset, length) ==
  LET idx == [k \in 1 .. coo.nz |-> k - 1]
      InRange(k) == offset <= coo.I[k] /\ coo.I[k] < offset + length
      ks == SelectSeq(idx, InRange)
  IN [N |-> length,
      nz |-> Len(ks),
      I |-> [j \in 0 .. (Len(ks) - 1) |-> coo.I[ks[j + 1]] - offset],
      J |-> [j \in 0 .. (Len(ks) - 1) |-> coo.J[ks[j + 1]]],
      V |-> [j \in 0 .. (Len(ks) - 1) |-> coo.V[ks[j + 1]]],
      nzPerRow |-> [r \in Rows(length) |-> coo.nzPerRow[offset + r]]]

Loaded == pc = "loaded"
Converted(kind) == conv = kind /\ cpc = "done"

(* C1: after loading a file declared symmetric, with U entry lines of      *)
(* which D are on the diagonal, nz = 2U - D, whatever D is.                *)
C1_SymmetricNz == (Loaded /\ symmetric) => nz = 2 * U - D

(* The same count when every diagonal entry is in the file. *)
FullDiagonalNz == (Loaded /\ symmetric /\ D = N) => nz = 2 * U - D

(* C9: while loading a file declared symmetric, every write to I, J, V     *)
(* uses an index in [0, nz), the mirrored write included, and the read     *)
(* loop consumes every entry line.                                         *)
C9_LoaderWritesInBounds ==
  file.symmetric =>
    /\ \A k \in 1 .. Len(lastW) : 0 <= lastW[k] /\ lastW[k] < nz
    /\ Loaded => lines = Len(file.entries)

(* The loader never reads past the last entry line of a well-formed file. *)
NoReadPastEnd == (pc = "read" /\ i < nz) => lines < Len(file.entries)

(* Without a write past the end, the loader's counts match its triplets. *)
LoadedConsistentUnlessOob == (Loaded /\ ~oob) => Consistent

(* C2: CRS and ELL hold, for every row, exactly the multiset of            *)
(* <<column, value>> pairs of the triplet matrix, CRS in input order.      *)
C2_RowsPreserved ==
  /\ Converted("crs") =>
       \A r \in Rows(N) : CRSRow(data[0], r) = RowTriplets(r)
  /\ Converted("ell") =>
       \A r \in Rows(N) : BagOf(ELLRow(data[0], r, N)) = BagOf(RowTriplets(r))

(* The rows are preserved when the counts match the triplets. *)
RowsPreservedIfConsistent == (Loaded /\ Consistent) => C2_RowsPreserved

(* C3: after CRS conversion of a matrix the loader produced, ptr has N+1   *)
(* entries, ptr[0] = 0, ptr[N] = nz, ptr is non-decreasing and             *)
(* ptr[r+1] - ptr[r] is the number of triplets of row r.                   *)
C3_RowPointers ==
  Converted("crs") =>
    LET ptr == data[0].ptr IN
      /\ DOMAIN ptr = 0 .. N
      /\ ptr[0] = 0
      /\ ptr[N] = nz
      /\ \A r \in Rows(N) : ptr[r] <= ptr[r + 1]
      /\ \A r \in Rows(N) : ptr[r + 1] - ptr[r] = Count(r)

(* The row pointers are right when the counts match the triplets. *)
RowPointersIfConsistent == (Loaded /\ Consistent) => C3_RowPointers

(* The slots of a pair of parallel arrays that were written, with what    *)
(* they hold.                                                              *)
Contents(ind, val) ==
  {<<k, ind[k], val[k]>> : k \in {x \in DOMAIN ind : ind[x] # Uninit}}

SetMax(S) == IF S = {} THEN 0 ELSE CHOOSE m \in S : \A x \in S : x <= m

ChunkRows(c) == wd.offsets[c] .. (wd.offsets[c] + wd.lengths[c] - 1)

(* C4: for every chunk, chunked CRS and chunked ELL construction give the  *)
(* data the unchunked conversion gives on the chunk's rows alone: row      *)
(* pointers relative to the chunk and starting at 0, the rows' lengths,    *)
(* a pad width that is the largest row count of that chunk only, and the   *)
(* same index and value contents at chunk-local positions.                 *)
C4_ChunkedEqualsRestricted ==
  /\ Converted("split_crs") =>
       \A c \in Chunks(wd) :
         LET u == CRSOf(Restrict(COO, wd.offsets[c], wd.lengths[c])) IN
           /\ data[c].ptr = u.ptr
           /\ Contents(data[c].index, data[c].value) = u.placed
           /\ data[c].ptr[0] = 0
  /\ Converted("split_ell") =>
       \A c \in Chunks(wd) :
         LET u == ELLOf(Restrict(COO, wd.offsets[c], wd.lengths[c])) IN
         /\ data[c].length = u.length
         /\ data[c].elements = u.elements
         /\ Contents(data[c].index, data[c].data) = u.placed
         /\ \A r \in Rows(wd.lengths[c]) :
              data[c].length[r] = nzPerRow[wd.offsets[c] + r]
         /\ data[c].elements =
              wd.lengths[c] * SetMax({nzPerRow[r] : r \in ChunkRows(c)})

(* Slot s of the padded arrays belongs to row s % len, nonzero s \div len. *)
ELLLayout(d, len, off) ==
  /\ \A r \in Rows(len) : \A k \in 0 .. (d.length[r] - 1) :
       /\ k < Len(RowTriplets(off + r))
       /\ <<Get(d.index, k * len + r), Get(d.data, k * len + r)>>
            = RowTriplets(off + r)[k + 1]
  /\ \A s \in DOMAIN d.index :
       (d.index[s] # Uninit \/ d.data[s] # Uninit) =>
         (s \div len) < d.length[s % len]

ELLNeverBeyondLength(d, len) ==
  \A s \in DOMAIN d.index :
    (d.index[s] # Uninit \/ d.data[s] # Uninit) =>
      (s \div len) < d.length[s % len]

(* C5: after ELL conversion the k-th nonzero of row r, k < length[r], is   *)
(* at offset k*N + r (k*len_c + (r - offset_c) inside chunk c), and the    *)
(* conversion never writes a slot with k >= length[r].                     *)
C5_ELLLayout ==
  /\ Converted("ell") => ELLLayout(data[0], N, 0)
  /\ Converted("split_ell") =>
       \A c \in Chunks(wd) : ELLLayout(data[c], wd.lengths[c], wd.offsets[c])
  /\ conv = "ell" => ELLNeverBeyondLength(data[0], N)
  /\ conv = "split_ell" =>
       \A c \in Chunks(wd) : ELLNeverBeyondLength(data[c], wd.lengths[c])

(* The layout is right when the counts match the triplets. *)
ELLLayoutIfConsistent == (Loaded /\ Consistent) => C5_ELLLayout

(* Where the cursor of row r started, and the slots that are row r's own. *)
CursorBase(r) ==
  IF conv = "crs" THEN data[0].ptr[r]
  ELSE IF conv = "split_crs"
    THEN LET c == findChunk(wd, r) IN data[c].ptr[r - wd.offsets[c]]
    ELSE 0

OwnSlot(c, k, r) ==
  CASE conv = "crs" -> data[0].ptr[r] <= k /\ k < data[0].ptr[r + 1]
    [] conv = "split_crs" ->
         /\ c = findChunk(wd, r)
         /\ data[c].ptr[r - wd.offsets[c]] <= k
         /\ k < data[c].ptr[r - wd.offsets[c] + 1]
    [] conv = "ell" -> k % N = r /\ (k \div N) < nzPerRow[r]
    [] conv = "split_ell" ->
         /\ c = findChunk(wd, r)
         /\ k % wd.lengths[c] = r - wd.offsets[c]
         /\ (k \div wd.lengths[c]) < nzPerRow[r]

(* C10: converting a triplet matrix whose counts match its triplets, the   *)
(* cursor of a row never passes the row's count; every write lands inside  *)
(* its array and inside its row's own slots; no slot is written twice;     *)
(* at the end every cursor has advanced nzPerRow[r] times.                 *)
C10_CursorsStayInRow ==
  (Loaded /\ Consistent /\ conv # "none") =>
    /\ \A r \in Rows(N) :
         /\ offsets[r] - CursorBase(r) >= 0
         /\ offsets[r] - CursorBase(r) <= nzPerRow[r]
    /\ ~convOob
    /\ ~rewrote
    /\ cpc # "crash"
    /\ lastK # <<>> =>
         /\ lastK[2] \in DOMAIN data[lastK[1]].index
         /\ OwnSlot(lastK[1], lastK[2], lastK[3])
    /\ cpc = "done" =>
         \A r \in Rows(N) : offsets[r] - CursorBase(r) = nzPerRow[r]

(* One of the five defects the loader checks for. *)
Defective(f) ==
  \/ ~f.openable
  \/ ~f.bannerOk
  \/ ~f.sparse \/ ~f.real
  \/ ~f.sizeOk
  \/ f.M # f.N

(* C7: a file that is unreadable, has a malformed banner, is not a real    *)
(* sparse matrix, has an unreadable size line or is not square ends in     *)
(* exit(1) before anything is allocated and before any entry line is      *)
(* read; the arrays are allocated and filled only when all checks pass.    *)
C7_FatalBeforeAllocation ==
  /\ Defective(file) =>
       /\ pc \in {"open", "banner", "type", "size", "square", "exit1"}
       /\ ~allocated
       /\ lines = 0
  /\ pc = "exit1" => (Defective(file) /\ ~allocated /\ lines = 0)
  /\ (allocated \/ lines > 0) => ~Defective(file)
  /\ lines > 0 => allocated

C7_Witness ==
  /\ pc = "exit1"
  /\ file.openable /\ file.bannerOk /\ file.sparse /\ file.real /\ file.sizeOk
  /\ M # N

C4_Witness ==
  /\ Converted("split_ell")
  /\ N = 2
  /\ wd.numberOfChunks = 2
  /\ wd.lengths[0] = 1 /\ wd.lengths[1] = 1
  /\ data[0].elements = 2 /\ data[1].elements = 1
  /\ nz = 3

C10_Witness ==
  /\ Converted("split_crs")
  /\ N = 2
  /\ Consistent
  /\ wd.numberOfChunks = 2 /\ wd.lengths[0] = 1
  /\ nzPerRow[1] = 2
  /\ lastK = <<1, 1, 1>>

----------------------------------------------------------------------------
InitMatrix ==
  /\ file \in Files
  /\ pc = "open"
  /\ M = 0 /\ N = 0 /\ nz = 0
  /\ symmetric = FALSE
  /\ allocated = FALSE
  /\ cap = 0
  /\ I = <<>> /\ J = <<>> /\ V = <<>>
  /\ nzPerRow = <<>>
  /\ i = 0
  /\ lines = 0
  /\ lastW = <<>>
  /\ oob = FALSE

InitConv ==
  /\ conv = "none"
  /\ cpc = "idle"
  /\ wd = <<>>
  /\ data = <<>>
  /\ offsets = <<>>
  /\ ci = 0
  /\ lastK = <<>>
  /\ rewrote = FALSE
  /\ convOob = FALSE

InitCGIdle ==
  /\ timing = <<>>
  /\ lastOp = <<>>
  /\ lastCalls = <<>>
  /\ kernelRet = 0
  /\ ret = 0
  /\ spc = "unused"
  /\ checks = 0
  /\ preconditioner = "PreconditionerNone"
  /\ iteration = 0
  /\ maxIterations = 0
  /\ residual = 0
  /\ tolerance = 0

Init == InitMatrix /\ InitConv /\ InitCGIdle

Next == Load \/ Convert

Spec == Init /\ [][Next]_vars

----------------------------------------------------------------------------
(* class CG: the timed wrappers.  Durations count clock ticks and are      *)
(* capped at MaxTime; floatType arguments and results are drawn from       *)
(* Floats.                                                                 *)

Floats == {0, 1}

(* enum Vector; the wrappers are called with vectors from CallVectors. *)
Vectors == {"VectorK", "VectorX", "VectorP", "VectorQ", "VectorR", "VectorZ"}
CallVectors == {"VectorP", "VectorQ"}

(* struct Timing *)
TimingFields == {"io", "converting", "solve", "matvec", "axpy", "xpay",
                 "vectorDot", "preconditioner"}

(* start = now(); <kernel call>; timing.<field> += now() - start *)
Timed(field, call) ==
  /\ \E d \in 0 .. 1 :
       /\ timing[field] + d <= MaxTime
       /\ timing' = [timing EXCEPT ![field] = @ + d]
  /\ lastCalls' = <<call>>

matvec(in, out) ==
  /\ Timed("matvec", <<"matvecKernel", in, out>>)
  /\ lastOp' = <<"matvec", in, out>>
  /\ UNCHANGED <<kernelRet, ret>>

axpyIntoXpayTotal(a, x, y) ==
  /\ Timed("xpay", <<"axpyKernel", a, x, y>>)
  /\ lastOp' = <<"axpy", a, x, y>>
  /\ UNCHANGED <<kernelRet, ret>>
axpy(a, x, y) ==
  /\ Timed("axpy", <<"axpyKernel", a, x, y>>)
  /\ lastOp' = <<"axpy", a, x, y>>
  /\ UNCHANGED <<kernelRet, ret>>

xpay(x, a, y) ==
  /\ Timed("xpay", <<"xpayKernel", x, a, y>>)
  /\ lastOp' = <<"xpay", x, a, y>>
  /\ UNCHANGED <<kernelRet, ret>>

(* floatType res = vectorDotKernel(a, b); ...; return res; *)
vectorDot(a, b) ==
  /\ Timed("vectorDot", <<"vectorDotKernel", a, b>>)
  /\ lastOp' = <<"vectorDot", a, b>>
  /\ \E res \in Floats : kernelRet' = res /\ ret' = res

applyPreconditioner(x, y) ==
  /\ Timed("preconditioner", <<"applyPreconditionerKernel", x, y>>)
  /\ lastOp' = <<"applyPreconditioner", x, y>>
  /\ UNCHANGED <<kernelRet, ret>>

CallMatvec ==
  /\ \E in \in CallVectors, out \in CallVectors : matvec(in, out)
  /\ UNCHANGED <<mvars, cvars, svars>>

CallAxpy ==
  /\ \E a \in Floats, x \in CallVectors, y \in CallVectors : axpy(a, x, y)
  /\ UNCHANGED <<mvars, cvars, svars>>

CallXpay ==
  /\ \E x \in CallVectors, a \in Floats, y \in CallVectors : xpay(x, a, y)
  /\ UNCHANGED <<mvars, cvars, svars>>

CallVectorDot ==
  /\ \E a \in CallVectors, b \in CallVectors : vectorDot(a, b)
  /\ UNCHANGED <<mvars, cvars, svars>>

CallApplyPreconditioner ==
  /\ \E x \in CallVectors, y \in CallVectors : applyPreconditioner(x, y)
  /\ UNCHANGED <<mvars, cvars, svars>>

(* The fields of a CG object after its constructor: Timing has no          *)
(* initializers, so every duration starts at an indeterminate value.       *)
InitialTicks == {0, 1}
DefaultMaxIterations == 1000
(* tolerance = 1e-9; residuals are counted in units of it. *)
DefaultTolerance == 1

InitMatrixIdle ==
  /\ file = <<>>
  /\ pc = "unused"
  /\ M = 0 /\ N = 0 /\ nz = 0
  /\ symmetric = FALSE
  /\ allocated = FALSE
  /\ cap = 0
  /\ I = <<>> /\ J = <<>> /\ V = <<>>
  /\ nzPerRow = <<>>
  /\ i = 0
  /\ lines = 0
  /\ lastW = <<>>
  /\ oob = FALSE

InitCG ==
  /\ timing \in [TimingFields -> InitialTicks]
  /\ lastOp = <<>>
  /\ lastCalls = <<>>
  /\ kernelRet = 0
  /\ ret = 0
  /\ spc = "idle"
  /\ checks = 0
  /\ preconditioner = "PreconditionerNone"
  /\ iteration = 0
  /\ maxIterations = DefaultMaxIterations
  /\ residual = 0
  /\ tolerance = DefaultTolerance

InitTimed == InitMatrixIdle /\ InitConv /\ InitCG

NextTimed == CallMatvec \/ CallAxpy \/ CallXpay \/ CallVectorDot
               \/ CallApplyPreconditioner

SpecTimed == InitTimed /\ [][NextTimed]_vars

----------------------------------------------------------------------------
(* CG::parseEnvironment and CG::solve: the iteration of the conjugate      *)
(* gradients engine, step by step.                                         *)

(* The preconditioner and the maximum iteration count are recognized      *)
(* options.                                                                *)
parseEnvironment ==
  /\ spc = "idle"
  /\ maxIterations' \in 0 .. MaxIter
  /\ preconditioner' \in {"PreconditionerNone", "PreconditionerJacobi"}
  /\ UNCHANGED <<spc, checks, iteration, residual, tolerance>>
  /\ UNCHANGED <<mvars, cvars, tvars>>

Preconditioned == preconditioner = "PreconditionerJacobi"

SolveFrame == UNCHANGED <<mvars, cvars, preconditioner, maxIterations,
                          tolerance>>

(* x := 0, r := k; then z := B r, p := z when preconditioned, else p := r *)
solveInit ==
  /\ spc = "idle"
  /\ maxIterations <= MaxIter
  /\ iteration' = 0
  /\ spc' = IF Preconditioned THEN "init_precond" ELSE "loop"
  /\ UNCHANGED <<checks, residual, tvars>>
  /\ SolveFrame

solveInitPreconditioner ==
  /\ spc = "init_precond"
  /\ applyPreconditioner("VectorR", "VectorZ")
  /\ spc' = "loop"
  /\ UNCHANGED <<checks, residual, iteration>>
  /\ SolveFrame

LoopGoesOnAtCeiling(it, maxIt) == it <= maxIt
LoopGoesOn(it, maxIt) == it < maxIt

(* The loop condition: iterate until the ceiling is reached. *)
solveLoop ==
  /\ spc = "loop"
  /\ IF LoopGoesOn(iteration, maxIterations)
       THEN spc' = "matvec" /\ UNCHANGED timing
       ELSE /\ spc' = "MaxIterationsReached"
            /\ \E d \in 0 .. 1 :
                 /\ timing["solve"] + d <= MaxTime
                 /\ timing' = [timing EXCEPT !["solve"] = @ + d]
  /\ UNCHANGED <<checks, residual, iteration, lastOp, lastCalls, kernelRet,
                 ret>>
  /\ SolveFrame

(* 1. q := A p *)
solveMatvec ==
  /\ spc = "matvec"
  /\ matvec("VectorP", "VectorQ")
  /\ spc' = "dot_pq"
  /\ UNCHANGED <<checks, residual, iteration>>
  /\ SolveFrame

(* 2. alpha := dot(r, z) / dot(p, q), the numerator cached *)
solveAlpha ==
  /\ spc = "dot_pq"
  /\ vectorDot("VectorP", "VectorQ")
  /\ spc' = "axpy_x"
  /\ UNCHANGED <<checks, residual, iteration>>
  /\ SolveFrame

(* 3. x := x + alpha p *)
solveUpdateX ==
  /\ spc = "axpy_x"
  /\ \E alpha \in Floats : axpy(alpha, "VectorP", "VectorX")
  /\ spc' = "axpy_r"
  /\ UNCHANGED <<checks, residual, iteration>>
  /\ SolveFrame

(* 4. r := r - alpha q *)
solveUpdateR ==
  /\ spc = "axpy_r"
  /\ \E alpha \in Floats : axpy(alpha, "VectorQ", "VectorR")
  /\ spc' = "check"
  /\ UNCHANGED <<checks, residual, iteration>>
  /\ SolveFrame

IsConverged(res, tol) == res < tol

(* 5. residual := sqrt(dot(r, r)); terminate when residual < tolerance *)
solveCheck ==
  /\ spc = "check"
  /\ vectorDot("VectorR", "VectorR")
  /\ residual' = ret'
  /\ checks' = checks + 1
  /\ spc' = IF IsConverged(residual', tolerance) THEN "converged"
            ELSE IF Preconditioned THEN "precond" ELSE "beta"
  /\ UNCHANGED iteration
  /\ SolveFrame

(* The loop is left with the residual below the tolerance. *)
solveConverged ==
  /\ spc = "converged"
  /\ spc' = "Converged"
  /\ \E d \in 0 .. 1 :
       /\ timing["solve"] + d <= MaxTime
       /\ timing' = [timing EXCEPT !["solve"] = @ + d]
  /\ UNCHANGED <<checks, residual, iteration, lastOp, lastCalls, kernelRet,
                 ret>>
  /\ SolveFrame

(* 6. z := B r *)
solvePrecondition ==
  /\ spc = "precond"
  /\ applyPreconditioner("VectorR", "VectorZ")
  /\ spc' = "beta"
  /\ UNCHANGED <<checks, residual, iteration>>
  /\ SolveFrame

(* 7. beta := dot(r, z) / previous dot(r, z), or with r for z *)
solveBeta ==
  /\ spc = "beta"
  /\ IF Preconditioned
       THEN vectorDot("VectorR", "VectorZ")
       ELSE vectorDot("VectorR", "VectorR")
  /\ spc' = "xpay"
  /\ UNCHANGED <<checks, residual, iteration>>
  /\ SolveFrame

(* 8. p := z + beta p, or r + beta p; the iteration is complete *)
solveUpdateP ==
  /\ spc = "xpay"
  /\ \E beta \in Floats :
       IF Preconditioned
         THEN xpay("VectorZ", beta, "VectorP")
         ELSE xpay("VectorR", beta, "VectorP")
  /\ iteration' = iteration + 1
  /\ spc' = "loop"
  /\ UNCHANGED <<checks, residual>>
  /\ SolveFrame

solve == solveInit \/ solveInitPreconditioner \/ solveLoop \/ solveMatvec
           \/ solveAlpha \/ solveUpdateX \/ solveUpdateR \/ solveCheck
           \/ solveConverged \/ solvePrecondition \/ solveBeta
           \/ solveUpdateP

NextSolve == parseEnvironment \/ solve

(* solve() is one sequential call: a step that can be taken is taken. *)
SpecSolve == InitTimed /\ [][NextSolve]_vars /\ WF_vars(solve)

----------------------------------------------------------------------------
(* The kernel a wrapper calls and the total it adds to. *)
KernelOf(w) ==
  CASE w = "matvec" -> "matvecKernel"
    [] w = "axpy" -> "axpyKernel"
    [] w = "xpay" -> "xpayKernel"
    [] w = "vectorDot" -> "vectorDotKernel"
    [] w = "applyPreconditioner" -> "applyPreconditionerKernel"

TotalOf(w) ==
  CASE w = "matvec" -> "matvec"
    [] w = "axpy" -> "axpy"
    [] w = "xpay" -> "xpay"
    [] w = "vectorDot" -> "vectorDot"
    [] w = "applyPreconditioner" -> "preconditioner"

WrapperCalledOnce ==
  lastOp # <<>> =>
    /\ Len(lastCalls) = 1
    /\ lastCalls[1] = <<KernelOf(lastOp[1])>> \o Tail(lastOp)
    /\ lastOp[1] = "vectorDot" => ret = kernelRet

WrapperFrame ==
  /\ \A f \in TimingFields :
       f # TotalOf(lastOp'[1]) => timing'[f] = timing[f]
  /\ timing'[TotalOf(lastOp'[1])] >= timing[TotalOf(lastOp'[1])]
  /\ lastOp'[1] # "vectorDot" => UNCHANGED <<kernelRet, ret>>
  /\ UNCHANGED <<svars, mvars, cvars>>

(* C8: each timed wrapper calls its own kernel exactly once with the       *)
(* caller's arguments, changes no total but its own, and does not touch    *)
(* the result: vectorDot returns what its kernel returned, and the others  *)
(* change the solver only through their kernel.                            *)
C8_TimedWrappers == [](WrapperCalledOnce) /\ [][WrapperFrame]_vars

C8_Witness ==
  /\ lastOp = <<"vectorDot", "VectorP", "VectorQ">>
  /\ ret = 1
  /\ timing["vectorDot"] = 1
  /\ timing["axpy"] = 0

Terminal == {"Converged", "MaxIterationsReached"}
BeforeCheck == {"loop", "matvec", "dot_pq", "axpy_x", "axpy_r", "check",
                "MaxIterationsReached"}
AfterCheck == {"converged", "Converged", "precond", "beta", "xpay"}
Started == spc \notin {"idle", "unused"}

SolveState ==
  Started =>
    /\ iteration <= maxIterations
    /\ spc = "Converged" => residual < tolerance
    /\ spc = "MaxIterationsReached" =>
         /\ iteration = maxIterations
         /\ checks > 0 => ~(residual < tolerance)
    /\ spc \in BeforeCheck => checks = iteration
    /\ spc \in AfterCheck => checks = iteration + 1
    /\ ~(ENABLED solve) => spc \in Terminal

TerminalStays == (spc \in Terminal) => (spc' = spc)

(* C6: every run of solve() ends in exactly one of Converged (residual     *)
(* below the tolerance) and MaxIterationsReached, the iteration counter    *)
(* never exceeds the configured maximum, and iteration i+1 does not begin  *)
(* before the convergence check of iteration i is complete.                *)
C6_SolveTerminates ==
  /\ [](SolveState)
  /\ [][TerminalStays]_vars
  /\ Started ~> (spc \in Terminal)

C6_Witness ==
  /\ spc = "MaxIterationsReached"
  /\ iteration = 2
  /\ checks = 2

====
